---- MODULE Spec2Model ----
(***************************************************************************)
(* Model of script.py: a three-statement script that loads a text          *)
(* generation pipeline, calls it once on a fixed prompt and prints the     *)
(* text of the first returned record.  The pipeline is an external         *)
(* library; the script only sees what each call returns or raises.         *)
(*                                                                         *)
(*   Spec          the script against any capability of the interface type *)
(*   FairSpec      Spec, with every call returning or raising              *)
(*   ContractSpec  the script against a capability that honours the        *)
(*                 contract of the external collaborator                   *)
(***************************************************************************)
EXTENDS Integers, Sequences, FiniteSets

VARIABLES
    pc,         \* statement about to run: "Initialize", "Generate", "Report", or "done" / "failed"
    devices,    \* environment: the accelerator indices that exist
    hub,        \* environment: the model identifiers that can be loaded
    generator,  \* the name `generator`: Unbound or Bound(capability)
    request,    \* the arguments of the call generator(...): Unbound or Bound(request)
    response,   \* the name `response`: Unbound or Bound(sequence of records)
    stdout,     \* characters written to standard output
    prints,     \* number of completed print calls
    error,      \* "none", or the error that ended the process
    exit_code,  \* Unbound while running, Bound(status) once the process has ended
    calls       \* the stages invoked so far, in order (saturates at MaxCalls)

vars == <<pc, devices, hub, generator, request, response, stdout, prints, error,
          exit_code, calls>>

---------------------------------------------------------------------------
(* Bounds of the model *)

MaxDevice == 0          \* accelerator indices 0..MaxDevice may exist
MaxTokenId == 1         \* token ids 0..MaxTokenId
MaxContinuation == 3    \* characters a contract-honouring capability appends to the prompt
MaxRecords == 2         \* records in a result of an unconstrained capability
MaxCalls == 4           \* length at which the log of stage calls saturates

---------------------------------------------------------------------------
(* Values *)

Unbound == {}
Bound(v) == {v}
ValueOf(m) == CHOOSE v \in m : TRUE

NL == "\n"
Alphabet == {"a", NL}

SeqsUpTo(S, n) == UNION {[1..k -> S] : k \in 0..n}

IsPrefix(p, s) == Len(p) <= Len(s) /\ SubSeq(s, 1, Len(p)) = p

\* number of line terminators in a character sequence
Lines(s) == Cardinality({i \in 1..Len(s) : s[i] = NL})

---------------------------------------------------------------------------
(* The embedded constants of the script *)

task == "text-generation"
model == "EleutherAI/gpt-neo-2.7B"
\* variant: the script asks for the general-purpose processor
device_Cpu == 0 - 1
device == 0
\* variant: another prompt
prompt_Other == <<"E", "l", "e", "u", "t", "h", "e", "r", "A", "I", " ", "i", "s">>
prompt == <<"E", "l", "e", "u", "t", "h", "e", "r", "A", "I", " ", "h", "a", "s">>
do_sample == TRUE
\* variant: a minimum length above the maximum length
min_length_Swapped == 50 + 100
min_length == 50
max_length == 100
temperature == [num |-> 7, den |-> 10]
\* variant: two sequences requested
num_return_sequences_Two == 1 + 1
num_return_sequences == 1

---------------------------------------------------------------------------
(* The external capability, as the script sees it *)

Models == {model, "unknown/model"}
Devices == 0..MaxDevice
TokenIds == 0..MaxTokenId
Continuations == SeqsUpTo(Alphabet, MaxContinuation)

Capability(m, d, eos) == [model |-> m, device |-> d, tokenizer |-> [eos_token_id |-> eos]]

Return(v) == [kind |-> "return", value |-> v]
Raise(e) == [kind |-> "raise", value |-> e]

Record(t) == [generated_text |-> t]

\* pipeline(task, model=..., device=...) of an unconstrained library: it returns
\* some capability for the model and device, or raises
PipelineOutcomes(t, m, d) ==
    {Return(Capability(m, d, eos)) : eos \in TokenIds}
        \cup {Raise("ModelLoadError"), Raise("DeviceError")}

\* generator(prompt, ...) of an unconstrained capability: it returns some
\* sequence of records (texts of at most one character, with or without the
\* prompt before them), or raises
GeneratorOutcomes(req) ==
    LET stray == {<<>>} \cup {<<ch>> : ch \in Alphabet}
        texts == stray \cup {req.prompt \o c : c \in stray}
    IN  {Return(r) : r \in SeqsUpTo({Record(t) : t \in texts}, MaxRecords)}
            \cup {Raise("InvalidParameterError")}

\* the preconditions of Generate
ValidRequest(req) ==
    /\ req.min_length <= req.max_length
    /\ 0 < req.temperature.num
    /\ req.temperature.num <= req.temperature.den
    /\ req.num_return_sequences > 0

\* load(modelIdentifier, deviceSelector) of a capability that honours the contract
LoadContract(t, m, d) ==
    IF d >= 0 /\ d \notin devices THEN {Raise("DeviceError")}
    ELSE IF m \notin hub THEN {Raise("ModelLoadError")}
    ELSE {Return(Capability(m, d, eos)) : eos \in TokenIds}

\* capability.generate(...) of a capability that honours the contract
GenerateContract(req) ==
    IF ~ValidRequest(req) THEN {Raise("InvalidParameterError")}
    ELSE {Return(r) : r \in [1..req.num_return_sequences ->
                               {Record(req.prompt \o c) : c \in Continuations}]}

\* what the call pipeline(...) may do, for the library the script runs against
pipeline(lib, t, m, d) ==
    IF lib = "contract" THEN LoadContract(t, m, d) ELSE PipelineOutcomes(t, m, d)

\* what the call generator(...) may do, for the library the script runs against
generate(lib, req) ==
    IF lib = "contract" THEN GenerateContract(req) ELSE GeneratorOutcomes(req)

---------------------------------------------------------------------------
(* The script *)

Stages == <<"Initialize", "Generate", "Report">>

Log(stage) == IF Len(calls) < MaxCalls THEN Append(calls, stage) ELSE calls

\* variant: the generation call is made again after it returns
NextStage_Repeat(stage) ==
    CASE stage = "Initialize" -> "Generate"
      [] stage = "Generate" -> "Generate"
      [] OTHER -> "done"

\* the statement after `stage`, in the order of the file
NextStage(stage) ==
    CASE stage = "Initialize" -> "Generate"
      [] stage = "Generate" -> "Report"
      [] OTHER -> "done"

\* variant: the failed statement is retried
Abort_Retry(err) ==
    /\ pc' = pc
    /\ error' = err
    /\ UNCHANGED <<exit_code, stdout, prints>>

\* variant: the error is caught and printed
Abort_PrintsError(err) ==
    /\ pc' = "failed"
    /\ error' = err
    /\ exit_code' = Bound(1)
    /\ stdout' = stdout \o <<"!", NL>>
    /\ prints' = prints + 1

\* an exception nothing catches: the interpreter ends with status 1 and the
\* traceback goes to standard error
Abort(err) ==
    /\ pc' = "failed"
    /\ error' = err
    /\ exit_code' = Bound(1)
    /\ UNCHANGED <<stdout, prints>>

\* the keyword arguments of the call generator(...)
Request(g) ==
    [prompt |-> prompt,
     do_sample |-> do_sample,
     min_length |-> min_length,
     max_length |-> max_length,
     temperature |-> temperature,
     num_return_sequences |-> num_return_sequences,
     pad_token_id |-> g.tokenizer.eos_token_id]

\* variant: response[-1]
Subscript0_Last(r) == IF Len(r) = 0 THEN Raise("EmptyResultError") ELSE Return(r[Len(r)])

\* response[0]
Subscript0(r) == IF Len(r) = 0 THEN Raise("EmptyResultError") ELSE Return(r[1])

\* generator = pipeline('text-generation', model=..., device=0)
Initialize(lib) ==
    /\ pc = "Initialize"
    /\ calls' = Log("Initialize")
    /\ \E o \in pipeline(lib, task, model, device) :
          IF o.kind = "return"
          THEN /\ generator' = Bound(o.value)
               /\ pc' = NextStage("Initialize")
               /\ UNCHANGED <<error, exit_code, stdout, prints>>
          ELSE /\ Abort(o.value)
               /\ UNCHANGED generator
    /\ UNCHANGED <<devices, hub, request, response>>

\* response = generator("EleutherAI has", do_sample=True, ...)
Generate(lib) ==
    /\ pc = "Generate"
    /\ calls' = Log("Generate")
    /\ LET req == Request(ValueOf(generator))
       IN  /\ request' = Bound(req)
           /\ \E o \in generate(lib, req) :
                 IF o.kind = "return"
                 THEN /\ response' = Bound(o.value)
                      /\ pc' = NextStage("Generate")
                      /\ UNCHANGED <<error, exit_code, stdout, prints>>
                 ELSE /\ Abort(o.value)
                      /\ UNCHANGED response
    /\ UNCHANGED <<devices, hub, generator>>

\* print(response[0]['generated_text']), and the end of the file
Report ==
    /\ pc = "Report"
    /\ calls' = Log("Report")
    /\ LET first == Subscript0(ValueOf(response))
       IN  IF first.kind = "return"
           THEN /\ stdout' = stdout \o first.value.generated_text \o <<NL>>
                /\ prints' = prints + 1
                /\ pc' = NextStage("Report")
                /\ exit_code' = Bound(0)
                /\ UNCHANGED error
           ELSE Abort(first.value)
    /\ UNCHANGED <<devices, hub, generator, request, response>>

Init ==
    /\ pc = "Initialize"
    /\ devices \in SUBSET Devices
    /\ hub \in SUBSET Models
    /\ generator = Unbound
    /\ request = Unbound
    /\ response = Unbound
    /\ stdout = <<>>
    /\ prints = 0
    /\ error = "none"
    /\ exit_code = Unbound
    /\ calls = <<>>

Next ==
    \/ Initialize("any")
    \/ Generate("any")
    \/ Report

Spec == Init /\ [][Next]_vars

\* every call to the external capability returns or raises
FairSpec == Spec /\ WF_vars(Next)

ContractNext ==
    \/ Initialize("contract")
    \/ Generate("contract")
    \/ Report

ContractSpec == Init /\ [][ContractNext]_vars

---------------------------------------------------------------------------
(* Stage order *)

\* C1: the stages run in the order Initialize, Generate, Report, each at most
\* once; Generate is called only on the capability Initialize returned, with that
\* capability's tokenizer supplying the pad token id; Report runs only once
\* Generate has returned a result.
C1_StageOrder ==
    /\ IsPrefix(calls, Stages)
    /\ (generator # Unbound => Len(calls) >= 1)
    /\ (Len(calls) >= 2 =>
          /\ generator # Unbound
          /\ request # Unbound
          /\ ValueOf(request).pad_token_id = ValueOf(generator).tokenizer.eos_token_id)
    /\ (response # Unbound => Len(calls) >= 2)
    /\ (Len(calls) >= 3 => response # Unbound)

C1_Witness == calls = Stages /\ response # Unbound /\ prints = 1

---------------------------------------------------------------------------
(* Output *)

\* C2, as stated: a failure before Report leaves standard output empty, a run
\* with no failure prints exactly one line, and there is never more than one print.
C2_Original ==
    /\ (pc = "failed" /\ Len(calls) < 3 => stdout = <<>>)
    /\ (pc = "done" => Lines(stdout) = 1)
    /\ prints <= 1

\* C2, amended: a failure before Report ends the process with standard output
\* empty; a run with no failure makes exactly one print, which writes one text
\* and one line terminator (the text may itself hold line terminators); nothing
\* is written before that print and there is never more than one print.
C2_OnePrint ==
    /\ (pc = "failed" /\ Len(calls) < 3 => stdout = <<>> /\ prints = 0 /\ exit_code # Unbound)
    /\ (pc = "done" =>
          /\ error = "none"
          /\ prints = 1
          /\ stdout = ValueOf(response)[1].generated_text \o <<NL>>)
    /\ (pc \notin {"done", "failed"} => stdout = <<>> /\ prints = 0)
    /\ prints <= 1

C2_Witness ==
    /\ pc = "failed"
    /\ error = "InvalidParameterError"
    /\ calls = <<"Initialize", "Generate">>
    /\ stdout = <<>>

EleutherAI_has == <<"E", "l", "e", "u", "t", "h", "e", "r", "A", "I", " ", "h", "a", "s">>

EmbeddedConstants(req) ==
    /\ req.min_length = 50
    /\ req.max_length = 100
    /\ req.temperature.num * 10 = 7 * req.temperature.den
    /\ req.num_return_sequences = 1
    /\ req.prompt = EleutherAI_has

\* C3, as stated: with the embedded constants, a run in which every stage
\* succeeds writes exactly one line, which begins with "EleutherAI has" and is
\* the text of the first record of the result.
C3_Original ==
    pc = "done" =>
        /\ EmbeddedConstants(ValueOf(request))
        /\ Lines(stdout) = 1
        /\ IsPrefix(EleutherAI_has, stdout)
        /\ stdout = ValueOf(response)[1].generated_text \o <<NL>>

\* C3, amended: with the embedded constants, a run in which every stage succeeds
\* writes exactly the text of the first record of the result followed by one line
\* terminator, in one print; the output begins with "EleutherAI has"; the text
\* may span several lines.
C3_PrintsFirstText ==
    pc = "done" =>
        /\ EmbeddedConstants(ValueOf(request))
        /\ prints = 1
        /\ IsPrefix(EleutherAI_has, stdout)
        /\ stdout = ValueOf(response)[1].generated_text \o <<NL>>
        /\ Lines(stdout) >= 1

C3_Witness ==
    /\ pc = "done"
    /\ IsPrefix(EleutherAI_has, stdout)
    /\ Lines(stdout) = 3

---------------------------------------------------------------------------
(* Failures *)

C6_Report ==
    Len(calls) >= 3 =>
        IF ValueOf(response) = <<>>
        THEN pc = "failed" /\ error = "EmptyResultError" /\ stdout = <<>> /\ prints = 0
        ELSE /\ pc = "done"
             /\ error = "none"
             /\ prints = 1
             /\ stdout = ValueOf(response)[1].generated_text \o <<NL>>

C6_Witness ==
    /\ calls = Stages
    /\ response = Bound(<<>>)
    /\ error = "EmptyResultError"
    /\ exit_code = Bound(1)

\* C7: the result Generate returns has exactly as many records as the request
\* asked for, which is 1 for the request of the script, so the first record that
\* Report reads exists and Report never fails with EmptyResultError.
C7_RecordCount ==
    /\ (response # Unbound =>
          /\ Len(ValueOf(response)) = ValueOf(request).num_return_sequences
          /\ Len(ValueOf(response)) = 1)
    /\ error # "EmptyResultError"
    /\ (Len(calls) >= 3 => pc = "done")

C7_Witness == Len(calls) >= 3 /\ Len(ValueOf(response)) = 1 /\ pc = "done"

\* C10: the request the script builds meets every precondition of Generate, so
\* Generate never fails with InvalidParameterError; the only failures are
\* ModelLoadError or DeviceError at Initialize and EmptyResultError at Report.
C10_RequestValid ==
    /\ (request # Unbound =>
          LET req == ValueOf(request)
          IN  /\ req.max_length = 100 /\ req.min_length = 50
              /\ req.max_length >= req.min_length
              /\ req.temperature.num * 10 = 7 * req.temperature.den
              /\ 0 < req.temperature.num /\ req.temperature.num <= req.temperature.den
              /\ req.num_return_sequences = 1)
    /\ error # "InvalidParameterError"
    /\ error \in {"none", "ModelLoadError", "DeviceError", "EmptyResultError"}
    /\ (error \in {"ModelLoadError", "DeviceError"} => calls = <<"Initialize">>)
    /\ (error = "EmptyResultError" => calls = Stages)
    /\ (Len(calls) >= 2 => response # Unbound)

C10_Witness ==
    /\ calls = <<"Initialize", "Generate">>
    /\ response # Unbound
    /\ error = "none"

---------------------------------------------------------------------------
(* Termination *)

Terminated ==
    \/ /\ pc = "done"
       /\ exit_code = Bound(0)
       /\ error = "none"
       /\ calls = Stages
    \/ /\ pc = "failed"
       /\ exit_code # Unbound
       /\ exit_code # Bound(0)
       /\ error # "none"
       /\ Len(calls) >= 1
       /\ IsPrefix(calls, Stages)

\* C8: every run eventually ends, and stays ended: with exit code 0 after Report
\* has completed, or with a non-zero exit code at the first stage that fails; a
\* process that has an exit code has ended.
C8_Terminates ==
    /\ <>[]Terminated
    /\ [](exit_code # Unbound => Terminated)

C8_Witness == pc = "done" /\ exit_code = Bound(0) /\ calls = Stages

====
